---------------------------- MODULE Spec2Model ----------------------------
(***************************************************************************)
(* Model of the release-maintenance scripts of Kite_Pilote_Public:         *)
(*   script/update_version.py  (changelog -> config.h version macros)      *)
(*   script/github_backup.py   (version bump, stage, commit, push)         *)
(*   backup_script.py          (stage, commit, push)                       *)
(*                                                                         *)
(* Text is a sequence of lexical atoms (strings).  Digits, ".", "/", "v",  *)
(* the double quote and the line terminators are atoms of their own; the   *)
(* words the regular expressions of the scripts spell out ("#define",      *)
(* "VERSION_MAJOR", ...) are one atom each, so that every match of a       *)
(* pattern of the code starts and ends on an atom boundary.                *)
(***************************************************************************)
EXTENDS Integers, Sequences, FiniteSets, TLC

VARIABLES
    prog,        \* the script being run
    pc,          \* position of the run in the script
    changelog,   \* docs/changelog.md: its text, or NoFile
    config,      \* include/core/config.h: its text, or NoFile
    clock,       \* days elapsed since StartDate (datetime.now())
    isRepo,      \* whether ./.git is a directory
    worktree,    \* paths of the project that differ from the last commit
    staged,      \* paths added to the index
    cmds,        \* external commands executed by the run, with their exit status
    log,         \* what the run printed (tags of the messages)
    exitcode,    \* exit status of the process, Running until it ends
    outcome,     \* how the run ended, as it reported it
    tmpfile,     \* .git_commit_msg.tmp: its text, or NoFile
    version,     \* update_version.main: the version extracted from the changelog
    verstr,      \* github_backup.main: the version string of the commit message
    changes,     \* github_backup.main: the change summary
    message,     \* the message handed to `git commit`
    input,       \* the text of config.h when the run started
    history,     \* the runs that ended before this one, oldest first
    headtmp      \* .git_commit_msg.tmp as the last commit holds it, or NoFile

vars == <<prog, pc, changelog, config, clock, isRepo, worktree, staged, cmds,
          log, exitcode, outcome, tmpfile, version, verstr, changes, message, input,
          history, headtmp>>

\* A path with no file behind it (no text holds this atom)
NoFile == <<"<absent>">>
\* Python's None, where a version dict is expected
None == [none |-> TRUE]
\* The exit status of a process that has not ended
Running == 0 - 1

-----------------------------------------------------------------------------
(* Bounds of the model *)

\* Number of segments a generated changelog is made of.
MaxSegs == 3
\* Number of extra lines inserted into a generated config.h.
MaxExtra == 1
\* Number of midnights that may pass during a run.
MaxTicks == 1
\* Number of runs of a script, one after the other.
MaxRuns == 3
\* Largest of the consecutive numbers a rendered version is made of.
MaxNumber == 10

-----------------------------------------------------------------------------
(* Characters, numbers *)

DigitSeq == <<"0", "1", "2", "3", "4", "5", "6", "7", "8", "9">>

Digits == {DigitSeq[i] : i \in 1..10}

\* int() of one digit
DigitVal(c) == CHOOSE n \in 0..9 : DigitSeq[n + 1] = c

\* int(s) for a string of digits
RECURSIVE ToInt(_)
ToInt(ds) ==
    IF ds = <<>> THEN 0
    ELSE ToInt(SubSeq(ds, 1, Len(ds) - 1)) * 10 + DigitVal(ds[Len(ds)])

\* f"{n}" for a non-negative integer
RECURSIVE ToDigits(_)
ToDigits(n) ==
    IF n < 10 THEN <<DigitSeq[n + 1]>>
    ELSE ToDigits(n \div 10) \o <<DigitSeq[(n % 10) + 1]>>

\* strftime %d, %m: two digits, zero padded
Pad2(n) == IF n < 10 THEN <<"0">> \o ToDigits(n) ELSE ToDigits(n)

\* strftime %Y for a year of four digits
Pad4(n) == ToDigits(n)

-----------------------------------------------------------------------------
(* The clock: datetime.now() *)

StartDate == [y |-> 2024, m |-> 12, d |-> 31]

DaysIn(y, m) ==
    IF m = 2 THEN (IF y % 4 = 0 /\ (y % 100 # 0 \/ y % 400 = 0) THEN 29 ELSE 28)
    ELSE IF m \in {4, 6, 9, 11} THEN 30 ELSE 31

NextDay(t) ==
    IF t.d < DaysIn(t.y, t.m) THEN [t EXCEPT !.d = t.d + 1]
    ELSE IF t.m < 12 THEN [t EXCEPT !.d = 1, !.m = t.m + 1]
    ELSE [y |-> t.y + 1, m |-> 1, d |-> 1]

RECURSIVE DateAt(_)
DateAt(k) == IF k = 0 THEN StartDate ELSE NextDay(DateAt(k - 1))

\* datetime.now().strftime("%d/%m/%Y")
FormatDMY(t) == Pad2(t.d) \o <<"/">> \o Pad2(t.m) \o <<"/">> \o Pad4(t.y)

\* datetime.now().strftime("%Y-%m-%d")
FormatISO(t) == Pad4(t.y) \o <<"-">> \o Pad2(t.m) \o <<"-">> \o Pad2(t.d)

-----------------------------------------------------------------------------
(* Files *)

\* os.path.exists
Exists(file) == file # NoFile

\* F(a), with a evaluated once, before F is
Apply(F(_), a) == CHOOSE r \in {F(x) : x \in {a}} : TRUE

\* The smallest element of a non-empty set of integers
Min(S) == CHOOSE x \in S : \A y \in S : x <= y

\* Universal newlines: "\r\n" and "\r" become "\n"
UniversalNewlines(text) ==
    LET Dropped == "<dropped>"
        marked == [j \in 1..Len(text) |->
                     IF text[j] = "\r" THEN "\n"
                     ELSE IF text[j] = "\n" /\ j > 1 /\ text[j - 1] = "\r" THEN Dropped
                     ELSE text[j]]
        Kept(a) == a # Dropped
    IN SelectSeq(marked, Kept)

\* open(path, 'r', encoding='utf-8').read(): text mode translates "\r\n" and
\* "\r" to "\n"
ReadText(file) == UniversalNewlines(file)

\* open(path, 'w', encoding='utf-8').write(text): "\n" is written as
\* os.linesep, which is "\n" where the scripts run (python3, /workspaces)
WriteText(text) == text

-----------------------------------------------------------------------------
(* Regular expressions *)

\* Greedy cls+ from position i: the position after the last atom taken
\* (i when none is).
ClassEnd(text, i, cls) ==
    LET stops == {j \in i..Len(text) : text[j] \notin cls}
    IN IF stops = {} THEN Len(text) + 1 ELSE Min(stops)

\* Whether the literal lit is at position i
LitAt(text, i, lit) ==
    /\ i + Len(lit) - 1 <= Len(text)
    /\ SubSeq(text, i, i + Len(lit) - 1) = lit

\* A pattern of the shape  lit cls+ close  at position i: the position after
\* the match, 0 without a match.  No atom of close is in cls for the
\* patterns of the scripts, so the greedy run never has to give atoms back.
MatchAt(text, i, pat) ==
    IF ~LitAt(text, i, pat.lit) THEN 0
    ELSE LET b == i + Len(pat.lit)
             e == ClassEnd(text, b, pat.cls)
         IN IF e > b /\ LitAt(text, e, pat.close) THEN e + Len(pat.close) ELSE 0

\* Faulty variant: re.sub(pat, repl, text, count=1), the first match only
ReSub_first(pat, repl, text, i) ==
    LET starts == {j \in i..Len(text) : MatchAt(text, j, pat) > 0}
    IN IF starts = {} THEN SubSeq(text, i, Len(text))
       ELSE LET s == Min(starts)
            IN SubSeq(text, i, s - 1) \o repl
                 \o SubSeq(text, MatchAt(text, s, pat), Len(text))

\* re.sub(pat, repl, text): every non-overlapping match, left to right
RECURSIVE ReSub(_, _, _, _)
ReSub(pat, repl, text, i) ==
    LET starts == {j \in i..Len(text) : MatchAt(text, j, pat) > 0}
    IN IF starts = {} THEN SubSeq(text, i, Len(text))
       ELSE LET s == Min(starts)
            IN SubSeq(text, i, s - 1) \o repl \o ReSub(pat, repl, text, MatchAt(text, s, pat))

\* r'v(\d+)\.(\d+)\.(\d+)\.(\d+)' at position i: the four groups and the
\* position after the match, end = 0 without a match
VersionAt(text, i) ==
    LET no == [end |-> 0, groups |-> <<>>]
        e1 == ClassEnd(text, i + 1, Digits)
        e2 == ClassEnd(text, e1 + 1, Digits)
        e3 == ClassEnd(text, e2 + 1, Digits)
        e4 == ClassEnd(text, e3 + 1, Digits)
    IN IF ~(i <= Len(text) /\ text[i] = "v") THEN no
       ELSE IF ~(e1 > i + 1 /\ LitAt(text, e1, <<".">>)) THEN no
       ELSE IF ~(e2 > e1 + 1 /\ LitAt(text, e2, <<".">>)) THEN no
       ELSE IF ~(e3 > e2 + 1 /\ LitAt(text, e3, <<".">>)) THEN no
       ELSE IF ~(e4 > e3 + 1) THEN no
       ELSE [end |-> e4,
             groups |-> <<SubSeq(text, i + 1, e1 - 1), SubSeq(text, e1 + 1, e2 - 1),
                          SubSeq(text, e2 + 1, e3 - 1), SubSeq(text, e3 + 1, e4 - 1)>>]

\* re.findall(r'v(\d+)\.(\d+)\.(\d+)\.(\d+)', text)
RECURSIVE FindAllVersions(_, _)
FindAllVersions(text, i) ==
    LET starts == {j \in i..Len(text) : VersionAt(text, j).end > 0}
    IN IF starts = {} THEN <<>>
       ELSE LET m == VersionAt(text, Min(starts))
            IN <<m.groups>> \o FindAllVersions(text, m.end)

-----------------------------------------------------------------------------
(* script/update_version.py *)

CHANGELOG_PATH == "docs/changelog.md"
CONFIG_PATH == "include/core/config.h"

\* Faulty variant: a version of zeros where there is none
extract_version_defaulting(file) ==
    LET First(version_matches) ==
            IF version_matches = <<>>
            THEN [major |-> 0, minor |-> 0, patch |-> 0, build |-> 0]
            ELSE [major |-> ToInt(version_matches[1][1]),
                  minor |-> ToInt(version_matches[1][2]),
                  patch |-> ToInt(version_matches[1][3]),
                  build |-> ToInt(version_matches[1][4])]
    IN IF ~Exists(file) THEN First(<<>>)
       ELSE Apply(First, FindAllVersions(ReadText(file), 1))

\* Faulty variant: the last match instead of the first
extract_version_last(file) ==
    LET Last(version_matches) ==
            IF version_matches = <<>> THEN None
            ELSE [major |-> ToInt(version_matches[Len(version_matches)][1]),
                  minor |-> ToInt(version_matches[Len(version_matches)][2]),
                  patch |-> ToInt(version_matches[Len(version_matches)][3]),
                  build |-> ToInt(version_matches[Len(version_matches)][4])]
    IN IF ~Exists(file) THEN None
       ELSE Apply(Last, FindAllVersions(ReadText(file), 1))

\* extract_version_from_changelog(): None, or the dict of the first match
extract_version_from_changelog(file) ==
    IF ~Exists(file) THEN None
    ELSE LET Found(content) == FindAllVersions(content, 1)
             First(version_matches) ==
                 IF version_matches = <<>> THEN None
                 ELSE [major |-> ToInt(version_matches[1][1]),
                       minor |-> ToInt(version_matches[1][2]),
                       patch |-> ToInt(version_matches[1][3]),
                       build |-> ToInt(version_matches[1][4])]
         IN Apply(First, Apply(Found, ReadText(file)))

\* What extract_version_from_changelog prints
ExtractVersionOutput(file) ==
    IF ~Exists(file) THEN <<"Erreur: Fichier ", CHANGELOG_PATH, " introuvable.", "\n">>
    ELSE IF extract_version_from_changelog(file) = None
         THEN <<"Aucune version trouvee dans le changelog.", "\n">>
    ELSE <<>>

\* r'#define NAME \d+'
MacroPattern(name) ==
    [lit |-> <<"#define", " ", name, " ">>, cls |-> Digits, close |-> <<>>]

\* r'#define VERSION_STRING "v[\d\.]+"'
StringPattern ==
    [lit |-> <<"#define", " ", "VERSION_STRING", " ", "\"", "v">>,
     cls |-> Digits \cup {"."}, close |-> <<"\"">>]

\* r'#define BUILD_DATE "[\d/]+"'
DatePattern ==
    [lit |-> <<"#define", " ", "BUILD_DATE", " ", "\"">>,
     cls |-> Digits \cup {"/"}, close |-> <<"\"">>]

\* Faulty variant: the minor number where the patch number belongs
VersionString_copied(v) ==
    <<"v">> \o ToDigits(v.major) \o <<".">> \o ToDigits(v.minor) \o <<".">>
            \o ToDigits(v.minor) \o <<".">> \o ToDigits(v.build)

\* f'v{major}.{minor}.{patch}.{build}'
VersionString(v) ==
    <<"v">> \o ToDigits(v.major) \o <<".">> \o ToDigits(v.minor) \o <<".">>
            \o ToDigits(v.patch) \o <<".">> \o ToDigits(v.build)

\* One of the six re.sub calls of update_config_version
SubMacro(name, n, content) ==
    ReSub(MacroPattern(name), <<"#define", " ", name, " ">> \o ToDigits(n), content, 1)

SubString(v, content) ==
    ReSub(StringPattern,
          <<"#define", " ", "VERSION_STRING", " ", "\"">> \o VersionString(v) \o <<"\"">>,
          content, 1)

SubDate(today, content) ==
    ReSub(DatePattern,
          <<"#define", " ", "BUILD_DATE", " ", "\"">> \o today \o <<"\"">>,
          content, 1)

\* The text update_config_version writes back
PatchedText(v, content, today) ==
    LET Major(c) == SubMacro("VERSION_MAJOR", v.major, c)
        Minor(c) == SubMacro("VERSION_MINOR", v.minor, c)
        Patch(c) == SubMacro("VERSION_PATCH", v.patch, c)
        Build(c) == SubMacro("VERSION_BUILD", v.build, c)
        String(c) == SubString(v, c)
        Date(c) == SubDate(today, c)
    IN Apply(Date, Apply(String, Apply(Build, Apply(Patch, Apply(Minor,
             Apply(Major, content))))))

\* Faulty variant: no check that the file exists; it is written anew
update_config_version_creating(v, file, now) ==
    LET Updated(today) ==
            [ok |-> TRUE,
             file |-> WriteText(PatchedText(v, IF Exists(file) THEN ReadText(file) ELSE <<>>,
                                            today)),
             out |-> <<"Version mise a jour a ">> \o VersionString(v)
                        \o <<" dans ", CONFIG_PATH, "\n">>
                        \o <<"Date de build mise a jour a ">> \o today \o <<"\n">>]
    IN Apply(Updated, FormatDMY(now))

\* update_config_version(version): what it returns, the file it leaves and
\* what it prints
update_config_version(v, file, now) ==
    IF ~Exists(file)
    THEN [ok |-> FALSE, file |-> file,
          out |-> <<"Erreur: Fichier ", CONFIG_PATH, " introuvable.", "\n">>]
    ELSE LET Updated(today) ==
                 [ok |-> TRUE,
                  file |-> WriteText(PatchedText(v, ReadText(file), today)),
                  out |-> <<"Version mise a jour a ">> \o VersionString(v)
                             \o <<" dans ", CONFIG_PATH, "\n">>
                             \o <<"Date de build mise a jour a ">> \o today \o <<"\n">>]
         IN Apply(Updated, FormatDMY(now))

\* main() of update_version.py run to its end: exit status, stdout, and the
\* config file it leaves
UpdateVersionMain(clfile, cfgfile, now) ==
    LET hello == <<"Script de mise a jour de version: demarrage...", "\n">>
        Found(v) == <<"Version extraite du changelog: ">> \o VersionString(v) \o <<"\n">>
        Main(v) ==
            IF v = None
            THEN [rc |-> 1, file |-> cfgfile,
                  out |-> hello \o ExtractVersionOutput(clfile)
                          \o <<"Impossible de continuer sans information de version.", "\n">>]
            ELSE LET End(r) ==
                         IF r.ok
                         THEN [rc |-> 0, file |-> r.file,
                               out |-> hello \o Found(v) \o r.out
                                       \o <<"Mise a jour reussie !", "\n">>]
                         ELSE [rc |-> 1, file |-> r.file,
                               out |-> hello \o Found(v) \o r.out
                                       \o <<"La mise a jour a echoue.", "\n">>]
                 IN Apply(End, update_config_version(v, cfgfile, now))
    IN Apply(Main, extract_version_from_changelog(clfile))

-----------------------------------------------------------------------------
(* The environment: the shell, git *)

\* Exit statuses of an external command: success, failure, and the shell's
\* "command not found"
ExitCodes == {0, 1, 127}

\* Names of the external commands
CmdUpdateVersion == "python3 script/update_version.py"
CmdVersion == "git --version"
CmdRevParse == "git rev-parse --is-inside-work-tree"
CmdStatus == "git status --porcelain"
CmdAdd == "git add ."
CmdCommitF == "git commit -F .git_commit_msg.tmp"
CmdCommitM == "git commit -m"
CmdPushTo == "git push origin main"
CmdPush == "git push"

TmpPath == ".git_commit_msg.tmp"
ConfigPath == "include/core/config.h"
SourcePath == "src/main.cpp"

\* Exit statuses git can end with, given whether the directory is a repository
GitExit(repo) == IF repo THEN ExitCodes ELSE ExitCodes \ {0}

\* Exit statuses of `git commit`: it fails when nothing is staged
CommitExit(repo, index) == IF index = {} THEN ExitCodes \ {0} ELSE GitExit(repo)

\* What `git status --porcelain` can have written to stdout when it ends
\* with rc: the paths that differ from HEAD, or, when it failed, possibly
\* nothing
StatusOutputs(rc, tree) == IF rc = 0 THEN {tree} ELSE {{}, tree}

\* The paths `git status --porcelain` lists and `git add .` stages: those of
\* the tree, and .git_commit_msg.tmp when it is not as the last commit holds it
Listing(tree, file, head) == IF file # head THEN tree \cup {TmpPath} ELSE tree

\* The working tree after `git commit` succeeded
AfterCommit(tree, index) == tree \ index

-----------------------------------------------------------------------------
(* Ending a run *)

Say(tag, cmd) == [tag |-> tag, cmd |-> cmd]

\* The process ends with status code; how is what its last message reported
Exit(code, how) ==
    /\ pc' = "done"
    /\ exitcode' = code
    /\ outcome' = how

\* The run executed cmd: its exit status, the day it ran, and what it listed
\* on stdout (the status query; {} for the commands whose output is not read)
Listed(cmd, rc, listed) ==
    cmds' = Append(cmds, [cmd |-> cmd, rc |-> rc, day |-> clock, listed |-> listed])

Ran(cmd, rc) == Listed(cmd, rc, {})

-----------------------------------------------------------------------------
(* script/update_version.py run on its own *)

\* main(): version = extract_version_from_changelog()
UVExtract ==
    /\ prog = "update_version"
    /\ pc = "uv_extract"
    /\ version' = extract_version_from_changelog(changelog)
    /\ IF version' = None
       THEN /\ log' = log \o <<Say("pas de version", "")>>
            /\ Exit(1, "failed")
       ELSE /\ log' = log \o <<Say("version extraite", "")>>
            /\ pc' = "uv_update"
            /\ UNCHANGED <<exitcode, outcome>>
    /\ UNCHANGED <<prog, changelog, config, clock, isRepo, worktree, staged, cmds,
                   tmpfile, verstr, changes, message, input>>
    /\ UNCHANGED <<history, headtmp>>

\* main(): if update_config_version(version): ... else: sys.exit(1)
UVUpdate ==
    /\ prog = "update_version"
    /\ pc = "uv_update"
    /\ \E r \in {update_config_version(version, config, DateAt(clock))} :
          /\ config' = r.file
          /\ worktree' = IF r.file # config THEN worktree \cup {ConfigPath} ELSE worktree
          /\ IF r.ok
             THEN /\ log' = log \o <<Say("mise a jour reussie", "")>>
                  /\ Exit(0, "success")
             ELSE /\ log' = log \o <<Say("mise a jour echouee", "")>>
                  /\ Exit(1, "failed")
    /\ UNCHANGED <<prog, changelog, clock, isRepo, staged, cmds, tmpfile, version,
                   verstr, changes, message, input>>
    /\ UNCHANGED <<history, headtmp>>

\* Midnight passes while the script runs
Tick ==
    /\ pc # "done"
    /\ clock < MaxTicks
    /\ clock' = clock + 1
    /\ UNCHANGED <<prog, pc, changelog, config, isRepo, worktree, staged, cmds, log,
                   exitcode, outcome, tmpfile, version, verstr, changes, message, input>>
    /\ UNCHANGED <<history, headtmp>>

-----------------------------------------------------------------------------
(* Strings *)

Whitespace == {" ", "\n", "\r", "\t"}

\* str.strip(): from the first to the last atom that is not whitespace
Strip(text) ==
    LET inked == {j \in 1..Len(text) : text[j] \notin Whitespace}
    IN IF inked = {} THEN <<>>
       ELSE SubSeq(text, Min(inked), CHOOSE x \in inked : \A y \in inked : y <= x)

\* The position of the first "\n" at or after i, Len(text) + 1 without one
LineEnd(text, i) ==
    LET ends == {j \in i..Len(text) : text[j] = "\n"}
    IN IF ends = {} THEN Len(text) + 1 ELSE Min(ends)

\* str.split('\n')
RECURSIVE SplitLines(_)
SplitLines(text) ==
    LET e == LineEnd(text, 1)
    IN IF e > Len(text) THEN <<text>>
       ELSE <<SubSeq(text, 1, e - 1)>> \o SplitLines(SubSeq(text, e + 1, Len(text)))

\* '\n'.join(lines)
RECURSIVE JoinLines(_)
JoinLines(lines) ==
    IF lines = <<>> THEN <<>>
    ELSE IF Len(lines) = 1 THEN lines[1]
    ELSE lines[1] \o <<"\n">> \o JoinLines(Tail(lines))

\* re.search(pat, text): the first match from position i on, as its start
\* and the position after it; start = 0 without a match
ReSearch(pat, text, i) ==
    LET starts == {j \in i..Len(text) : MatchAt(text, j, pat) > 0}
    IN IF starts = {} THEN [start |-> 0, end |-> 0]
       ELSE [start |-> Min(starts), end |-> MatchAt(text, Min(starts), pat)]

-----------------------------------------------------------------------------
(* script/github_backup.py *)

\* r'Version mise à jour à (v[\d\.]+)'
UpdatedPattern ==
    [lit |-> <<"Version mise a jour a ", "v">>, cls |-> Digits \cup {"."}, close |-> <<>>]

\* update_version(): the version read back from the output of the script
VersionFromOutput(output) ==
    LET version_match == ReSearch(UpdatedPattern, output, 1)
    IN IF version_match.start > 0
       THEN SubSeq(output, version_match.start + 1, version_match.end - 1)
       ELSE <<"version inconnue">>

Sentinel == <<"Modifications non detaillees">>

\* The position where the lazy (.*?) of the section pattern stops: before
\* the first "\n\n###" at or after i, or at the end of the text
BodyEnd(text, i) ==
    LET stops == {j \in i..Len(text) : LitAt(text, j, <<"\n", "\n", "#", "#", "#">>)}
    IN IF stops = {} THEN Len(text) + 1 ELSE Min(stops)

\* The section pattern of extract_latest_changes at position i:
\* r'## [^\n]+\n\n### ([^\n]+)[^\n]*\n- \*\*Catégorie\*\*: ([^\n]+)\n- \*\*Action\*\*:(.*?)(?=\n\n###|\Z)'
SectionAt(text, i) ==
    LET no == [found |-> FALSE, title |-> <<>>, category |-> <<>>, body |-> <<>>]
        h0 == i + 3
        h1 == LineEnd(text, h0)
        t0 == h1 + 6
        t1 == LineEnd(text, t0)
        c0 == t1 + 5
        c1 == LineEnd(text, c0)
        a0 == c1 + 4
        a1 == BodyEnd(text, a0)
    IN IF ~(LitAt(text, i, <<"#", "#", " ">>) /\ h1 > h0) THEN no
       ELSE IF ~(LitAt(text, h1, <<"\n", "\n", "#", "#", "#", " ">>) /\ t1 > t0) THEN no
       ELSE IF ~(LitAt(text, t1, <<"\n", "-", " ", "**Categorie**:", " ">>) /\ c1 > c0) THEN no
       ELSE IF ~LitAt(text, c1, <<"\n", "-", " ", "**Action**:">>) THEN no
       ELSE [found |-> TRUE,
             title |-> SubSeq(text, t0, t1 - 1),
             category |-> SubSeq(text, c0, c1 - 1),
             body |-> SubSeq(text, a0, a1 - 1)]

\* sections[0] of re.findall(...), found = FALSE when the list is empty
FirstSection(text, i) ==
    LET starts == {j \in i..Len(text) : SectionAt(text, j).found}
    IN IF starts = {} THEN SectionAt(text, Len(text) + 1)
       ELSE SectionAt(text, Min(starts))

\* One action line, re-indented
IndentLine(line) ==
    LET l == Strip(line)
    IN IF l # <<>> /\ l[1] = "-" THEN <<" ", " ">> \o l
       ELSE <<" ", " ", " ", " ">> \o l

\* Faulty variant: no text where no section is found
extract_latest_changes_blank(file) ==
    IF ~Exists(file) THEN Sentinel
    ELSE LET Search(content) == FirstSection(content, 1)
             Indented(lines) == [k \in 1..Len(lines) |-> IndentLine(lines[k])]
             Render(section) ==
                 IF ~section.found THEN <<>>
                 ELSE LET action == JoinLines(Apply(Indented, SplitLines(Strip(section.body))))
                      IN Strip(section.title) \o <<"\n", "Categorie: ">>
                           \o Strip(section.category) \o <<"\n">> \o action
         IN Apply(Render, Apply(Search, ReadText(file)))

\* extract_latest_changes()
extract_latest_changes(file) ==
    IF ~Exists(file) THEN Sentinel
    ELSE LET Search(content) == FirstSection(content, 1)
             Indented(lines) == [k \in 1..Len(lines) |-> IndentLine(lines[k])]
             Render(section) ==
                 IF ~section.found THEN Sentinel
                 ELSE LET action == JoinLines(Apply(Indented, SplitLines(Strip(section.body))))
                      IN Strip(section.title) \o <<"\n", "Categorie: ">>
                           \o Strip(section.category) \o <<"\n">> \o action
         IN Apply(Render, Apply(Search, ReadText(file)))

\* Faulty variant: the date in the format of config.h
CommitMessage_dmy(v, now, chg) ==
    <<"Version", " ">> \o v \o <<" ", "-", " ">> \o FormatDMY(now)
        \o <<"\n", "\n">> \o chg

\* create_commit: f"Version {version} - {today}\n\n{changes}"
CommitMessage(v, now, chg) ==
    <<"Version", " ">> \o v \o <<" ", "-", " ">> \o FormatISO(now)
        \o <<"\n", "\n">> \o chg


\* Faulty variant: the no-op short-circuit is lost
check_for_changes_always(output) == TRUE

\* check_for_changes(): bool(output.strip()), output being the paths listed
check_for_changes(output) == output # {}

\* What run_command prints before sys.exit(1): the diagnostic when an
\* error_message was given, nothing otherwise
Diagnostic(error_message, cmd) ==
    IF error_message # "" THEN <<Say(error_message, cmd)>> ELSE <<>>

\* main(): if not check_git_repo(): ... sys.exit(1)
GBCheckRepo ==
    /\ prog = "github_backup"
    /\ pc = "gb_check_repo"
    /\ IF ~isRepo
       THEN /\ log' = log \o <<Say("demarrage", ""), Say("ERREUR: pas un depot Git", "")>>
            /\ Exit(1, "failed")
       ELSE /\ log' = log \o <<Say("demarrage", "")>>
            /\ pc' = "gb_update_version"
            /\ UNCHANGED <<exitcode, outcome>>
    /\ UNCHANGED <<prog, changelog, config, clock, isRepo, worktree, staged, cmds,
                   tmpfile, version, verstr, changes, message, input>>
    /\ UNCHANGED <<history, headtmp>>

\* main(): version = update_version()
GBUpdateVersion ==
    /\ prog = "github_backup"
    /\ pc = "gb_update_version"
    /\ \E r \in {UpdateVersionMain(changelog, config, DateAt(clock)),
                  [rc |-> 127, file |-> config, out |-> <<>>]} :
       \E output \in {Strip(r.out)} :
            /\ Ran(CmdUpdateVersion, r.rc)
            /\ config' = r.file
            /\ worktree' = IF r.file # config THEN worktree \cup {ConfigPath} ELSE worktree
            /\ IF r.rc # 0
               THEN /\ log' = log \o <<Say("Mise a jour de la version...", "")>>
                               \o Diagnostic("ERREUR: Echec de la mise a jour de la version",
                                             CmdUpdateVersion)
                    /\ Exit(1, "failed")
                    /\ UNCHANGED verstr
               ELSE /\ log' = log \o <<Say("Mise a jour de la version...", "")>>
                    /\ verstr' = VersionFromOutput(output)
                    /\ pc' = "gb_check_for_changes"
                    /\ UNCHANGED <<exitcode, outcome>>
    /\ UNCHANGED <<prog, changelog, clock, isRepo, staged, tmpfile, version, changes,
                   message, input>>
    /\ UNCHANGED <<history, headtmp>>

\* main(): if not check_for_changes(): print(...); return
GBCheckForChanges ==
    /\ prog = "github_backup"
    /\ pc = "gb_check_for_changes"
    /\ \E rc \in GitExit(isRepo) : \E output \in StatusOutputs(rc, Listing(worktree, tmpfile, headtmp)) :
         /\ Listed(CmdStatus, rc, output)
         /\ IF rc # 0
            THEN /\ log' = log \o Diagnostic("", CmdStatus)
                 /\ Exit(1, "failed")
            ELSE IF ~check_for_changes(output)
            THEN /\ log' = log \o <<Say("Aucun changement a sauvegarder.", "")>>
                 /\ Exit(0, "noop")
            ELSE /\ pc' = "gb_extract_latest_changes"
                 /\ UNCHANGED <<log, exitcode, outcome>>
    /\ UNCHANGED <<prog, changelog, config, clock, isRepo, worktree, staged, tmpfile,
                   version, verstr, changes, message, input>>
    /\ UNCHANGED <<history, headtmp>>

\* main(): changes = extract_latest_changes()
GBExtractLatestChanges ==
    /\ prog = "github_backup"
    /\ pc = "gb_extract_latest_changes"
    /\ changes' = extract_latest_changes(changelog)
    /\ log' = IF Exists(changelog) THEN log
              ELSE log \o <<Say("AVERTISSEMENT: changelog introuvable", "")>>
    /\ pc' = "gb_stage_all_changes"
    /\ UNCHANGED <<prog, changelog, config, clock, isRepo, worktree, staged, cmds,
                   exitcode, outcome, tmpfile, version, verstr, message, input>>
    /\ UNCHANGED <<history, headtmp>>

\* main(): stage_all_changes()
GBStageAllChanges ==
    /\ prog = "github_backup"
    /\ pc = "gb_stage_all_changes"
    /\ \E rc \in GitExit(isRepo) :
         /\ Ran(CmdAdd, rc)
         /\ IF rc # 0
            THEN /\ log' = log \o <<Say("Ajout des fichiers modifies...", "")>>
                            \o Diagnostic("ERREUR: Echec de l'ajout des fichiers", CmdAdd)
                 /\ Exit(1, "failed")
                 /\ UNCHANGED staged
            ELSE /\ log' = log \o <<Say("Ajout des fichiers modifies...", "")>>
                 /\ staged' = Listing(worktree, tmpfile, headtmp)
                 /\ pc' = "gb_create_commit"
                 /\ UNCHANGED <<exitcode, outcome>>
    /\ UNCHANGED <<prog, changelog, config, clock, isRepo, worktree, tmpfile, version,
                   verstr, changes, message, input>>
    /\ UNCHANGED <<history, headtmp>>

\* main(): create_commit(version, changes)
GBCreateCommit ==
    /\ prog = "github_backup"
    /\ pc = "gb_create_commit"
    /\ message' = CommitMessage(verstr, DateAt(clock), changes)
    /\ \E rc \in CommitExit(isRepo, staged) :
         /\ Ran(CmdCommitF, rc)
         /\ IF rc # 0
            THEN \* run_command ends the process: the lines after it are not run
                 /\ tmpfile' = WriteText(message')
                 /\ log' = log \o <<Say("Creation du commit...", "")>>
                            \o Diagnostic("ERREUR: Echec de la creation du commit", CmdCommitF)
                 /\ Exit(1, "failed")
                 /\ UNCHANGED <<worktree, staged, headtmp>>
            ELSE \* the commit records the file as `git add .` found it
                 /\ headtmp' = tmpfile
                 /\ tmpfile' = NoFile
                 /\ worktree' = AfterCommit(worktree, staged)
                 /\ staged' = {}
                 /\ log' = log \o <<Say("Creation du commit...", "")>>
                 /\ pc' = "gb_push_to_github"
                 /\ UNCHANGED <<exitcode, outcome>>
    /\ UNCHANGED <<prog, changelog, config, clock, isRepo, version, verstr, changes, input>>
    /\ UNCHANGED history

\* main(): push_to_github(args.remote, args.branch), then the closing prints
GBPushToGithub ==
    /\ prog = "github_backup"
    /\ pc = "gb_push_to_github"
    /\ \E rc \in GitExit(isRepo) :
         /\ Ran(CmdPushTo, rc)
         /\ IF rc # 0
            THEN /\ log' = log \o <<Say("Push vers GitHub...", "")>>
                            \o Diagnostic("ERREUR: Echec du push", CmdPushTo)
                 /\ Exit(1, "failed")
            ELSE /\ log' = log \o <<Say("Push vers GitHub...", ""),
                                    Say("Sauvegarde terminee avec succes!", "")>>
                 /\ Exit(0, "success")
    /\ UNCHANGED <<prog, changelog, config, clock, isRepo, worktree, staged, tmpfile,
                   version, verstr, changes, message, input>>
    /\ UNCHANGED <<history, headtmp>>

-----------------------------------------------------------------------------
(* backup_script.py *)

\* What run_command prints: the command, then its output or its error
RunReport(cmd, rc) ==
    IF rc = 0 THEN <<Say("Execution", cmd), Say("Succes", cmd)>>
    ELSE <<Say("Execution", cmd), Say("Erreur lors de l'execution de la commande", cmd)>>

\* backup_and_commit: if not status_result.stdout.strip()
NothingToCommit(output) == output = {}

\* backup_and_commit returns after reporting a failure: the script ends
\* with the interpreter's status for a normal end
Return(how) == Exit(0, how)

\* __main__: subprocess.run("git --version", check=True) guarded by try/except
BSGitVersion ==
    /\ prog = "backup_script"
    /\ pc = "bs_git_version"
    /\ \E rc \in ExitCodes :
         /\ Ran(CmdVersion, rc)
         /\ IF rc # 0
            THEN /\ log' = log \o <<Say("Erreur critique: Git n'est pas installe", "")>>
                 /\ Exit(1, "failed")
            ELSE /\ log' = log \o <<Say("Git est detecte.", "")>>
                 /\ pc' = "bs_rev_parse"
                 /\ UNCHANGED <<exitcode, outcome>>
    /\ UNCHANGED <<prog, changelog, config, clock, isRepo, worktree, staged, tmpfile,
                   version, verstr, changes, message, input>>
    /\ UNCHANGED <<history, headtmp>>

\* backup_and_commit: 1. git rev-parse --is-inside-work-tree
BSRevParse ==
    /\ prog = "backup_script"
    /\ pc = "bs_rev_parse"
    /\ \E rc \in GitExit(isRepo) :
         /\ Ran(CmdRevParse, rc)
         /\ IF rc # 0
            THEN /\ log' = log \o RunReport(CmdRevParse, rc)
                            \o <<Say("Erreur: pas un depot Git valide", ""),
                                 Say("--- Processus de sauvegarde echoue ---", "")>>
                 /\ Return("failed")
            ELSE /\ log' = log \o RunReport(CmdRevParse, rc)
                 /\ pc' = "bs_add"
                 /\ UNCHANGED <<exitcode, outcome>>
    /\ UNCHANGED <<prog, changelog, config, clock, isRepo, worktree, staged, tmpfile,
                   version, verstr, changes, message, input>>
    /\ UNCHANGED <<history, headtmp>>

\* backup_and_commit: 2. git add .
BSAdd ==
    /\ prog = "backup_script"
    /\ pc = "bs_add"
    /\ \E rc \in GitExit(isRepo) :
         /\ Ran(CmdAdd, rc)
         /\ IF rc # 0
            THEN /\ log' = log \o RunReport(CmdAdd, rc)
                            \o <<Say("Echec de l'ajout des fichiers", ""),
                                 Say("--- Processus de sauvegarde echoue ---", "")>>
                 /\ Return("failed")
                 /\ UNCHANGED staged
            ELSE /\ log' = log \o RunReport(CmdAdd, rc)
                 /\ staged' = Listing(worktree, tmpfile, headtmp)
                 /\ pc' = "bs_status"
                 /\ UNCHANGED <<exitcode, outcome>>
    /\ UNCHANGED <<prog, changelog, config, clock, isRepo, worktree, tmpfile, version,
                   verstr, changes, message, input>>
    /\ UNCHANGED <<history, headtmp>>

\* backup_and_commit: 3. subprocess.run("git status --porcelain") without
\* check=True: only its stdout is looked at
BSStatus ==
    /\ prog = "backup_script"
    /\ pc = "bs_status"
    /\ \E rc \in GitExit(isRepo) : \E output \in StatusOutputs(rc, Listing(worktree, tmpfile, headtmp)) :
         /\ Listed(CmdStatus, rc, output)
         /\ IF NothingToCommit(output)
            THEN /\ log' = log \o <<Say("Aucun changement detecte a commiter", ""),
                                    Say("--- Processus de sauvegarde termine (aucun changement) ---", "")>>
                 /\ Return("noop")
            ELSE /\ log' = log \o <<Say("Changements detectes", "")>>
                 /\ pc' = "bs_commit"
                 /\ UNCHANGED <<exitcode, outcome>>
    /\ UNCHANGED <<prog, changelog, config, clock, isRepo, worktree, staged, tmpfile,
                   version, verstr, changes, message, input>>
    /\ UNCHANGED <<history, headtmp>>

\* backup_and_commit: 4. git commit -m "Automated backup <now>"
BSCommit ==
    /\ prog = "backup_script"
    /\ pc = "bs_commit"
    /\ message' = <<"Automated backup", " ">> \o FormatISO(DateAt(clock))
    /\ \E rc \in CommitExit(isRepo, staged) :
         /\ Ran(CmdCommitM, rc)
         /\ IF rc # 0
            THEN /\ log' = log \o RunReport(CmdCommitM, rc)
                            \o <<Say("Echec de la creation du commit", ""),
                                 Say("--- Processus de sauvegarde echoue ---", "")>>
                 /\ Return("failed")
                 /\ UNCHANGED <<worktree, staged>>
            ELSE /\ log' = log \o RunReport(CmdCommitM, rc)
                 /\ worktree' = AfterCommit(worktree, staged)
                 /\ staged' = {}
                 /\ pc' = "bs_push"
                 /\ UNCHANGED <<exitcode, outcome>>
    /\ UNCHANGED <<prog, changelog, config, clock, isRepo, tmpfile, version, verstr,
                   changes, input>>
    /\ UNCHANGED <<history, headtmp>>

\* backup_and_commit: 5. git push
BSPush ==
    /\ prog = "backup_script"
    /\ pc = "bs_push"
    /\ \E rc \in GitExit(isRepo) :
         /\ Ran(CmdPush, rc)
         /\ IF rc # 0
            THEN /\ log' = log \o RunReport(CmdPush, rc)
                            \o <<Say("Echec du push vers le depot distant", ""),
                                 Say("--- Processus de sauvegarde echoue ---", "")>>
                 /\ Return("failed")
            ELSE /\ log' = log \o RunReport(CmdPush, rc)
                            \o <<Say("--- Processus de sauvegarde termine avec succes ---", "")>>
                 /\ Return("success")
    /\ UNCHANGED <<prog, changelog, config, clock, isRepo, worktree, staged, tmpfile,
                   version, verstr, changes, message, input>>
    /\ UNCHANGED <<history, headtmp>>

-----------------------------------------------------------------------------
(* The files the runs start from *)

\* Sequences over S of at most n elements
SeqsUpTo(S, n) == UNION {[1..k -> S] : k \in 0..n}

RECURSIVE Concat(_)
Concat(ss) == IF ss = <<>> THEN <<>> ELSE ss[1] \o Concat(Tail(ss))

\* The lines, each followed by the line terminator eol
RECURSIVE Unlines(_, _)
Unlines(lines, eol) ==
    IF lines = <<>> THEN <<>> ELSE lines[1] \o eol \o Unlines(Tail(lines), eol)

TokenA == <<"v", "2", ".", "0", ".", "0", ".", "5">>
TokenB == <<"v", "1", ".", "9", ".", "0", ".", "2">>
TokenLeadingZero == <<"v", "0", "2", ".", "0", ".", "0", ".", "5">>
TokenLong == <<"v", "1", "0", ".", "0", ".", "1", "2", ".", "0">>
TokenShort == <<"v", "1", ".", "2", ".", "3">>

\* Pieces a generated changelog is made of
Segments ==
    {TokenA, TokenB, TokenLeadingZero, TokenShort, <<".", "4">>, <<"7">>,
     <<"notes">>, <<"\n">>}

GeneratedChangelogs == {Concat(ss) : ss \in SeqsUpTo(Segments, MaxSegs)}

\* A dated entry of the changelog, in the layout the project uses
Entry(token, title) ==
    <<"#", "#", " ", "[">> \o token \o <<"]", "\n", "\n">>
    \o <<"#", "#", "#", " ", title, "\n">>
    \o <<"-", " ", "**Categorie**:", " ", "Correction", "\n">>
    \o <<"-", " ", "**Action**:", "\n">>
    \o <<" ", " ", "-", " ", "corrige", "\n">>
    \o <<" ", " ", " ", " ", " ", "suite">>

ChangelogHeader == <<"#", " ", "Changelog", "\n", "\n">>

ChangelogFull ==
    ChangelogHeader \o Entry(TokenA, "Titre A") \o <<"\n", "\n">>
                    \o Entry(TokenB, "Titre B") \o <<"\n">>

ChangelogOldestFirst == ChangelogHeader \o TokenB \o <<"\n">> \o TokenA \o <<"\n">>

ChangelogNoVersion == ChangelogHeader \o <<"notes", " ">> \o TokenShort \o <<"\n">>

\* An entry whose title follows its heading without the blank line
ChangelogNearMiss ==
    ChangelogHeader
    \o <<"#", "#", " ", "[">> \o TokenA \o <<"]", "\n">>
    \o <<"#", "#", "#", " ", "Titre A", "\n">>
    \o <<"-", " ", "**Categorie**:", " ", "Correction", "\n">>
    \o <<"-", " ", "**Action**:", "\n">>
    \o <<" ", " ", "-", " ", "corrige", "\n">>

RunChangelogs ==
    {NoFile, ChangelogNoVersion, ChangelogFull, ChangelogOldestFirst,
     ChangelogHeader \o TokenLeadingZero, ChangelogNearMiss}

MacroNames == <<"VERSION_MAJOR", "VERSION_MINOR", "VERSION_PATCH", "VERSION_BUILD",
                "VERSION_STRING", "BUILD_DATE">>

OldDate == <<"0", "1", "/", "0", "1", "/", "2", "0", "2", "0">>

\* The six definitions of config.h, as the project writes them
GoldenLines ==
    << <<"#define", " ", "VERSION_MAJOR", " ", "1">>,
       <<"#define", " ", "VERSION_MINOR", " ", "0">>,
       <<"#define", " ", "VERSION_PATCH", " ", "0">>,
       <<"#define", " ", "VERSION_BUILD", " ", "3">>,
       <<"#define", " ", "VERSION_STRING", " ", "\"", "v", "1", ".", "0", ".", "0", ".", "3", "\"">>,
       <<"#define", " ", "BUILD_DATE", " ", "\"">> \o OldDate \o <<"\"">> >>

\* The same definitions in a shape the patterns do not match
MalformedLines ==
    << <<"#define", " ", "VERSION_MAJOR", "\t", "1">>,
       <<"#define", " ", " ", "VERSION_MINOR", " ", "0">>,
       <<"#define", " ", "VERSION_PATCH", " ", "(", "0", ")">>,
       <<"#define", " ", "VERSION_BUILD", " ", "x">>,
       <<"#define", " ", "VERSION_STRING", " ", "\"", "1", ".", "0", ".", "0", ".", "3", "\"">>,
       <<"#define", " ", "BUILD_DATE", " ", "\"", "today", "\"">> >>

\* Lines a generated config.h may hold besides
ExtraLines ==
    { <<"//", " ", "comment">>,
      <<>>,
      <<"#define", " ", "OTHER", " ", "7">>,
      <<"#define", " ", "VERSION_MAJOR", " ", "9">>,
      <<"//", " ", "#define", " ", "VERSION_BUILD", " ", "4", " ", "old">>,
      <<"#define", " ", "VERSION_STRING", " ", "\"", "v", "0", ".", "9", "\"">>,
      <<"#define", " ", "BUILD_DATE", " ", "\"", "3", "1", "/", "1", "2", "/", "1", "9", "9", "9", "\"">> }

Damages == {"none", "absent", "malformed"}

\* The golden lines with definition k removed or malformed
Damaged(k, damage) ==
    IF damage = "absent"
    THEN SubSeq(GoldenLines, 1, k - 1) \o SubSeq(GoldenLines, k + 1, Len(GoldenLines))
    ELSE IF damage = "malformed"
    THEN [GoldenLines EXCEPT ![k] = MalformedLines[k]]
    ELSE GoldenLines

Inserted(lines, at, extras) ==
    SubSeq(lines, 1, at) \o extras \o SubSeq(lines, at + 1, Len(lines))

GoldenConfig == Unlines(GoldenLines, <<"\n">>)

GeneratedConfigs ==
    {Unlines(Inserted(Damaged(k, damage), at, extras), eol) :
        k \in 1..Len(GoldenLines), damage \in Damages,
        at \in {0, 3, 5}, extras \in SeqsUpTo(ExtraLines, MaxExtra),
        eol \in {<<"\n">>, <<"\r", "\n">>}}

\* config.h as a run on StartDate leaves it for version 2.0.0.5: a second
\* run the same day changes nothing
CurrentConfig ==
    Unlines(<< <<"#define", " ", "VERSION_MAJOR", " ", "2">>,
               <<"#define", " ", "VERSION_MINOR", " ", "0">>,
               <<"#define", " ", "VERSION_PATCH", " ", "0">>,
               <<"#define", " ", "VERSION_BUILD", " ", "5">>,
               <<"#define", " ", "VERSION_STRING", " ",
                 "\"", "v", "2", ".", "0", ".", "0", ".", "5", "\"">>,
               <<"#define", " ", "BUILD_DATE", " ",
                 "\"", "3", "1", "/", "1", "2", "/", "2", "0", "2", "4", "\"">> >>,
            <<"\n">>)

RunConfigs == {NoFile, GoldenConfig, CurrentConfig}

-----------------------------------------------------------------------------
(* Specifications *)

StartOf(p) ==
    IF p = "github_backup" THEN "gb_check_repo"
    ELSE IF p = "backup_script" THEN "bs_git_version"
    ELSE "uv_extract"

InitRun ==
    /\ pc = StartOf(prog)
    /\ clock = 0
    /\ staged = {}
    /\ cmds = <<>>
    /\ log = <<>>
    /\ exitcode = Running
    /\ outcome = "running"
    /\ tmpfile = NoFile
    /\ version = None
    /\ verstr = <<>>
    /\ changes = <<>>
    /\ message = <<>>
    /\ input = config
    /\ history = <<>>
    /\ headtmp = NoFile

\* A run of one of the three scripts
Init ==
    /\ prog \in {"github_backup", "backup_script", "update_version"}
    /\ changelog \in RunChangelogs
    /\ config \in RunConfigs
    /\ isRepo \in BOOLEAN
    /\ worktree \in {{}, {SourcePath}}
    /\ InitRun

Next ==
    \/ UVExtract
    \/ UVUpdate
    \/ GBCheckRepo
    \/ GBUpdateVersion
    \/ GBCheckForChanges
    \/ GBExtractLatestChanges
    \/ GBStageAllChanges
    \/ GBCreateCommit
    \/ GBPushToGithub
    \/ BSGitVersion
    \/ BSRevParse
    \/ BSAdd
    \/ BSStatus
    \/ BSCommit
    \/ BSPush
    \/ Tick

Spec == Init /\ [][Next]_vars

\* The day the run began
Started == IF history = <<>> THEN 0 ELSE history[Len(history)].to

\* The script is started again after it ended: the files, the index and the
\* clock are as the run left them
Again ==
    /\ pc = "done"
    /\ Len(history) < MaxRuns - 1
    /\ history' = Append(history, [outcome |-> outcome, exitcode |-> exitcode,
                                    from |-> Started, to |-> clock])
    /\ pc' = StartOf(prog)
    /\ cmds' = <<>>
    /\ log' = <<>>
    /\ exitcode' = Running
    /\ outcome' = "running"
    /\ version' = None
    /\ verstr' = <<>>
    /\ changes' = <<>>
    /\ message' = <<>>
    /\ input' = config
    /\ UNCHANGED <<prog, changelog, config, clock, isRepo, worktree, staged, tmpfile,
                   headtmp>>

\* Runs of one script, one after the other
SpecRuns == Init /\ [][Next \/ Again]_vars

\* update_version.py run on generated changelogs
InitParse ==
    /\ prog = "update_version"
    /\ changelog \in GeneratedChangelogs
    /\ config = GoldenConfig
    /\ isRepo = TRUE
    /\ worktree = {}
    /\ InitRun

\* update_version.py run on generated config files
InitPatch ==
    /\ prog = "update_version"
    /\ changelog \in {TokenB, TokenLong, TokenLeadingZero}
    /\ config \in GeneratedConfigs
    /\ isRepo = TRUE
    /\ worktree = {}
    /\ InitRun

NextVersion == UVExtract \/ UVUpdate \/ Tick

SpecParse == InitParse /\ [][NextVersion]_vars

SpecPatch == InitPatch /\ [][NextVersion]_vars

\* The numbers of the versions that are rendered and read back
Numbers == (0..MaxNumber) \cup {105, 2024}

\* The version string of update_config_version written out as a document
RenderVersion ==
    /\ prog = "update_version"
    /\ pc = "render"
    /\ verstr' = VersionString(version)
    /\ changelog' = WriteText(verstr')
    /\ pc' = "uv_extract"
    /\ UNCHANGED <<prog, config, clock, isRepo, worktree, staged, cmds, log, exitcode,
                   outcome, tmpfile, version, changes, message, input>>
    /\ UNCHANGED <<history, headtmp>>

\* A version is rendered, and extract_version_from_changelog reads it back
InitRound ==
    /\ prog = "update_version"
    /\ version \in [major : Numbers, minor : Numbers, patch : Numbers, build : Numbers]
    /\ changelog = NoFile
    /\ config = GoldenConfig
    /\ isRepo = TRUE
    /\ worktree = {}
    /\ pc = "render"
    /\ clock = 0
    /\ staged = {}
    /\ cmds = <<>>
    /\ log = <<>>
    /\ exitcode = Running
    /\ outcome = "running"
    /\ tmpfile = NoFile
    /\ verstr = <<>>
    /\ changes = <<>>
    /\ message = <<>>
    /\ input = config
    /\ history = <<>>
    /\ headtmp = NoFile

NextRound == RenderVersion \/ UVExtract

SpecRound == InitRound /\ [][NextRound]_vars

-----------------------------------------------------------------------------
(* Properties of the runs *)

IsOrchestrator == prog \in {"github_backup", "backup_script"}

Ended == pc = "done"

Executed(c) == \E k \in 1..Len(cmds) : cmds[k].cmd = c

Failed(c) == \E k \in 1..Len(cmds) : cmds[k].cmd = c /\ cmds[k].rc # 0

CommitCmds == {CmdCommitF, CmdCommitM}

PushCmds == {CmdPush, CmdPushTo}

\* The status query succeeded and listed nothing: the working tree is clean
StatusClean ==
    \E k \in 1..Len(cmds) :
        cmds[k].cmd = CmdStatus /\ cmds[k].rc = 0 /\ cmds[k].listed = {}

\* The status query succeeded and listed pending changes
StatusDirty ==
    \E k \in 1..Len(cmds) :
        cmds[k].cmd = CmdStatus /\ cmds[k].rc = 0 /\ cmds[k].listed # {}

NoCommitNoPush == \A c \in CommitCmds \cup PushCmds : ~Executed(c)

\* C1 as stated: for both orchestrators, in a run where the working tree is
\* clean none of git add, git commit, git push is executed at any point, and
\* the run ends in the no-op outcome with exit status 0.
C1_CleanTreeNoStageCommitPush ==
    (IsOrchestrator /\ StatusClean) =>
        /\ ~Executed(CmdAdd)
        /\ NoCommitNoPush
        /\ Ended /\ outcome = "noop" /\ exitcode = 0

\* C1, amended: in a run where the working tree is clean no commit and no
\* push is executed and the run ends in the no-op outcome with exit status 0;
\* github_backup.main executes no git add either, while
\* backup_script.backup_and_commit has executed `git add .` once, before the
\* status query.
C1_CleanTreeNoCommitPush ==
    (IsOrchestrator /\ StatusClean) =>
        /\ NoCommitNoPush
        /\ Ended /\ outcome = "noop" /\ exitcode = 0
        /\ prog = "github_backup" => ~Executed(CmdAdd)
        /\ prog = "backup_script" =>
              \E k \in 1..Len(cmds) :
                  /\ cmds[k] = [cmd |-> CmdAdd, rc |-> 0, day |-> cmds[k].day, listed |-> {}]
                  /\ cmds[k + 1].cmd = CmdStatus
                  /\ \A j \in 1..Len(cmds) : cmds[j].cmd = CmdAdd => j = k

C1_Witness ==
    /\ prog = "backup_script" /\ StatusClean /\ Ended
    /\ Executed(CmdAdd) /\ outcome = "noop"

\* C2: for both orchestrators, if the commit command returns a non-zero exit
\* status, push is never executed in that run and the process ends with a
\* non-zero exit status.
C2_CommitFailureNoPushNonZeroExit ==
    (IsOrchestrator /\ \E c \in CommitCmds : Failed(c)) =>
        /\ \A c \in PushCmds : ~Executed(c)
        /\ Ended /\ exitcode # 0

\* C3: for both orchestrators the exit status is 0 exactly when the run ended
\* in success or in the no-op outcome, and 1 whenever a fatal stage failed.
C3_ExitCodeTellsOutcome ==
    (IsOrchestrator /\ Ended) =>
        /\ exitcode = 0 <=> outcome \in {"success", "noop"}
        /\ outcome = "failed" => exitcode = 1

\* C4: in every terminal state of a github_backup run that wrote the commit
\* message file, whether the commit succeeded or failed, the file no longer
\* exists.
C4_MessageFileDeleted ==
    (prog = "github_backup" /\ Ended /\ Executed(CmdCommitF)) => ~Exists(tmpfile)

\* The canonical rendering of the first version token of the changelogs the
\* runs start from
ExpectedVersion(doc) ==
    IF doc \in {ChangelogFull, ChangelogNearMiss}
    THEN <<"v", "2", ".", "0", ".", "0", ".", "5">>
    ELSE IF doc = ChangelogOldestFirst THEN <<"v", "1", ".", "9", ".", "0", ".", "2">>
    ELSE IF doc = ChangelogHeader \o TokenLeadingZero
         THEN <<"v", "2", ".", "0", ".", "0", ".", "5">>
    ELSE <<"?">>

\* The date k days after StartDate, as YYYY-MM-DD
ExpectedISO(k) ==
    IF k = 0 THEN <<"2", "0", "2", "4", "-", "1", "2", "-", "3", "1">>
    ELSE IF k = 1 THEN <<"2", "0", "2", "5", "-", "0", "1", "-", "0", "1">>
    ELSE IF k = 2 THEN <<"2", "0", "2", "5", "-", "0", "1", "-", "0", "2">>
    ELSE IF k = 3 THEN <<"2", "0", "2", "5", "-", "0", "1", "-", "0", "3">>
    ELSE <<"?">>

GithubStages == <<CmdUpdateVersion, CmdStatus, CmdAdd, CmdCommitF, CmdPushTo>>

GithubBanners ==
    <<"demarrage", "Mise a jour de la version...", "Ajout des fichiers modifies...",
      "Creation du commit...", "Push vers GitHub...", "Sauvegarde terminee avec succes!">>

\* C5: in github_backup.main, given a dirty working tree and every external
\* command succeeding, the run executes version update, status, stage, commit
\* and push once each in that order, the commit message is
\* "Version {version} - {YYYY-MM-DD}" with the canonical rendering of the
\* first version token of the changelog and the date of the commit, then a
\* blank line and the change summary, and the run ends in success.
C5_DirtyTreeFullPipeline ==
    (/\ prog = "github_backup" /\ Ended /\ StatusDirty
     /\ \A k \in 1..Len(cmds) : cmds[k].rc = 0) =>
        /\ [k \in 1..Len(cmds) |-> cmds[k].cmd] = GithubStages
        /\ [k \in 1..Len(log) |-> log[k].tag] = GithubBanners
        /\ message = <<"Version", " ">> \o ExpectedVersion(changelog) \o <<" ", "-", " ">>
                        \o ExpectedISO(cmds[4].day) \o <<"\n", "\n">> \o changes
        /\ outcome = "success" /\ exitcode = 0

C5_Witness ==
    /\ prog = "github_backup" /\ Ended /\ StatusDirty /\ outcome = "success"
    /\ changelog = ChangelogFull
    /\ SubSeq(message, 1, 25) =
         <<"Version", " ", "v", "2", ".", "0", ".", "0", ".", "5", " ", "-", " ",
           "2", "0", "2", "5", "-", "0", "1", "-", "0", "1", "\n", "\n">>
    /\ SubSeq(message, 26, 26) = <<"Titre A">>

NoVersionChangelogs == {NoFile, ChangelogNoVersion}

\* C6: when the changelog holds no token v<int>.<int>.<int>.<int> or is
\* missing, extract_version_from_changelog returns None, update_version.main
\* ends with exit status 1 and config.h as it was, and the github_backup run
\* that invoked it stops without executing status, stage, commit or push.
C6_NoVersionStopsEverything ==
    changelog \in NoVersionChangelogs =>
        /\ config = input
        /\ prog = "update_version" =>
              /\ pc \in {"uv_extract", "done"}
              /\ Ended => version = None /\ exitcode = 1 /\ outcome = "failed"
        /\ prog = "github_backup" =>
              /\ \A k \in 1..Len(cmds) : cmds[k].cmd = CmdUpdateVersion /\ cmds[k].rc # 0
              /\ cmds # <<>> => Ended /\ exitcode = 1 /\ outcome = "failed"

C6_Witness ==
    /\ prog = "github_backup" /\ changelog = ChangelogNoVersion /\ Exists(config)
    /\ Len(cmds) = 1 /\ cmds[1].cmd = CmdUpdateVersion /\ cmds[1].rc = 1
    /\ Ended

\* C7: for both orchestrators, once a stage fails no command of a later stage
\* is executed, and no external command is executed more than once in a run.
C7_StopAtFirstFailureNoRetry ==
    IsOrchestrator =>
        /\ \A k \in 1..Len(cmds) : cmds[k].rc # 0 => k = Len(cmds)
        /\ \A j, k \in 1..Len(cmds) : cmds[j].cmd = cmds[k].cmd => j = k

-----------------------------------------------------------------------------
(* Properties of update_config_version *)

\* The lines of config.h as the run found it and as it is now
InLines == SplitLines(UniversalNewlines(input))

OutLines == SplitLines(config)

PatternOf(m) ==
    IF m <= 4 THEN MacroPattern(MacroNames[m])
    ELSE IF m = 5 THEN StringPattern ELSE DatePattern

\* A recognized definition (lit, then one or more atoms of cls, then close)
\* somewhere in the line
Occurs(line, pat) ==
    \E j \in 1..Len(line) : \E e \in (j + Len(pat.lit) + 1)..(Len(line) + 1) :
        /\ LitAt(line, j, pat.lit)
        /\ \A k \in (j + Len(pat.lit))..(e - 1) : line[k] \in pat.cls
        /\ LitAt(line, e, pat.close)

\* The line holds the definition def, its value ending there
Holds(line, def, cls) ==
    \E j \in 1..Len(line) :
        /\ LitAt(line, j, def)
        /\ j + Len(def) > Len(line) \/ line[j + Len(def)] \notin cls

\* The day k days after StartDate, as DD/MM/YYYY
ExpectedDMY(k) ==
    IF k = 0 THEN <<"3", "1", "/", "1", "2", "/", "2", "0", "2", "4">>
    ELSE IF k = 1 THEN <<"0", "1", "/", "0", "1", "/", "2", "0", "2", "5">>
    ELSE IF k = 2 THEN <<"0", "2", "/", "0", "1", "/", "2", "0", "2", "5">>
    ELSE IF k = 3 THEN <<"0", "3", "/", "0", "1", "/", "2", "0", "2", "5">>
    ELSE <<"?">>

\* The values of the four numbers and of the string for the changelogs the
\* patcher runs start from: (1,9,0,2), (10,0,12,0) and (2,0,0,5)
ExpectedValues(doc) ==
    IF doc = TokenB
    THEN << <<"1">>, <<"9">>, <<"0">>, <<"2">>,
            <<"\"", "v", "1", ".", "9", ".", "0", ".", "2", "\"">> >>
    ELSE IF doc = TokenLong
    THEN << <<"1", "0">>, <<"0">>, <<"1", "2">>, <<"0">>,
            <<"\"", "v", "1", "0", ".", "0", ".", "1", "2", ".", "0", "\"">> >>
    ELSE IF doc = TokenLeadingZero
    THEN << <<"2">>, <<"0">>, <<"0">>, <<"5">>,
            <<"\"", "v", "2", ".", "0", ".", "0", ".", "5", "\"">> >>
    ELSE << <<"?">>, <<"?">>, <<"?">>, <<"?">>, <<"?">> >>

\* The definition of macro m the run is to leave
ExpectedDef(m) ==
    <<"#define", " ", MacroNames[m], " ">>
        \o (IF m <= 5 THEN ExpectedValues(changelog)[m]
            ELSE <<"\"">> \o ExpectedDMY(clock) \o <<"\"">>)

Macros == 1..Len(MacroNames)

Updated == prog = "update_version" /\ Ended /\ exitcode = 0

\* The lines of the input where macro m is defined in the recognized shape
Occurrences(m) == {i \in 1..Len(InLines) : Occurs(InLines[i], PatternOf(m))}

\* C8 as stated: each recognized definition is replaced once, at its first
\* occurrence; where it occurs more than once, every later occurrence keeps
\* its value.
C8_OnlyFirstOccurrenceReplaced ==
    Updated =>
        /\ Len(OutLines) = Len(InLines)
        /\ \A m \in Macros : \A i \in Occurrences(m) :
               i # Min(Occurrences(m)) => OutLines[i] = InLines[i]

\* C8, amended: update_config_version replaces every occurrence of each
\* recognized definition; where one occurs more than once, each occurrence
\* is set to the new value.
C8_EveryOccurrenceReplaced ==
    Updated =>
        /\ Len(OutLines) = Len(InLines)
        /\ \A m \in Macros : \A i \in Occurrences(m) :
               Holds(OutLines[i], ExpectedDef(m), PatternOf(m).cls)

C8_Witness ==
    /\ Updated
    /\ \E m \in Macros : \E i \in Occurrences(m) :
          /\ i # Min(Occurrences(m))
          /\ OutLines[i] # InLines[i]
          /\ Holds(OutLines[i], ExpectedDef(m), PatternOf(m).cls)

\* The lines of config.h as the run found it, each with what precedes its
\* line feed, a carriage return included
InRows == SplitLines(input)

AllPresent == \A m \in Macros : Occurrences(m) # {}

\* Every definition of macro m in the lines holds the value the run is to
\* leave, and there is one
Defines(lines, m) ==
    /\ \E i \in 1..Len(lines) : Holds(lines[i], ExpectedDef(m), PatternOf(m).cls)
    /\ \A i \in 1..Len(lines) :
          Occurs(lines[i], PatternOf(m)) =>
              Holds(lines[i], ExpectedDef(m), PatternOf(m).cls)

\* C9: for an artifact that holds each recognized definition in the expected
\* shape, the run succeeds and leaves VERSION_MAJOR/MINOR/PATCH/BUILD at
\* a/b/c/d, VERSION_STRING at "va.b.c.d", BUILD_DATE at the day of the run as
\* DD/MM/YYYY, and every line without a recognized definition identical to
\* the input, in the same order.
C9_PatchUpdatesMacrosOnly ==
    (prog = "update_version" /\ Ended /\ version # None /\ AllPresent) =>
        /\ exitcode = 0
        /\ \A m \in Macros : Defines(OutLines, m)
        /\ Len(OutLines) = Len(InRows)
        /\ \A i \in 1..Len(InRows) :
              (\A m \in Macros : ~Occurs(InRows[i], PatternOf(m))) =>
                  OutLines[i] = InRows[i]

\* What does hold of the patch: the same, the line ends of the input set aside
PatchFrameUpToLineEnds ==
    (prog = "update_version" /\ Ended /\ version # None /\ AllPresent) =>
        /\ exitcode = 0
        /\ \A m \in Macros : Defines(OutLines, m)
        /\ Len(OutLines) = Len(InLines)
        /\ \A i \in 1..Len(InLines) :
              (\A m \in Macros : ~Occurs(InLines[i], PatternOf(m))) =>
                  OutLines[i] = InLines[i]

-----------------------------------------------------------------------------
(* Properties of extract_version_from_changelog *)

\* The positions a..b of the text hold digits, and at least one
DigitsOnly(text, a, b) == a <= b /\ \A k \in a..b : text[k] \in Digits

\* The number the digits ds spell
RECURSIVE Spelled(_)
Spelled(ds) ==
    IF ds = <<>> THEN 0 ELSE DigitVal(Head(ds)) * 10 ^ (Len(ds) - 1) + Spelled(Tail(ds))

\* The version tokens that start at position i: "v", three groups of digits
\* each followed by ".", and a fourth group that takes every digit it can
TokensAt(text, i) ==
    LET dots == {k \in 1..Len(text) : text[k] = "."}
        After(a) == {d \in dots : DigitsOnly(text, a + 1, d - 1)}
        Last(a) == {e \in 1..Len(text) :
                       /\ DigitsOnly(text, a + 1, e)
                       /\ e = Len(text) \/ text[e + 1] \notin Digits}
    IN IF i > Len(text) \/ text[i] # "v" THEN {}
       ELSE UNION {UNION {UNION {{<<d1, d2, d3, e>> : e \in Last(d3)}
                                    : d3 \in After(d2)}
                             : d2 \in After(d1)}
                      : d1 \in After(i)}

TokenValue(text, i, t) ==
    [major |-> Spelled(SubSeq(text, i + 1, t[1] - 1)),
     minor |-> Spelled(SubSeq(text, t[1] + 1, t[2] - 1)),
     patch |-> Spelled(SubSeq(text, t[2] + 1, t[3] - 1)),
     build |-> Spelled(SubSeq(text, t[3] + 1, t[4]))]

TokenStarts(text) == {i \in 1..Len(text) : TokensAt(text, i) # {}}

-----------------------------------------------------------------------------
(* Properties of extract_latest_changes *)

\* The changelogs of the runs that hold a version token and no block of the
\* shape heading, blank line, title, category line, action body
NoSectionChangelogs ==
    {ChangelogOldestFirst, ChangelogHeader \o TokenLeadingZero, ChangelogNearMiss}

AllSucceeded == \A k \in 1..Len(cmds) : cmds[k].rc = 0

\* C11: extract_latest_changes returns the fixed sentinel text when the
\* changelog is missing or holds no block of the expected shape, and the
\* github_backup run does not fail because of it: it goes on to stage, to
\* commit with the sentinel as the body of the message, and to push.
C11_SentinelAndRunGoesOn ==
    /\ extract_latest_changes(NoFile) = <<"Modifications non detaillees">>
    /\ (prog = "github_backup" /\ changelog \in NoSectionChangelogs) =>
          /\ Executed(CmdAdd) => changes = <<"Modifications non detaillees">>
          /\ Executed(CmdCommitF) =>
                message = <<"Version", " ">> \o ExpectedVersion(changelog)
                            \o <<" ", "-", " ">> \o ExpectedISO(cmds[4].day)
                            \o <<"\n", "\n", "Modifications non detaillees">>
          /\ (Ended /\ exitcode # 0) =>
                \/ ~isRepo /\ cmds = <<>>
                \/ \E k \in 1..Len(cmds) : cmds[k].rc # 0
          /\ (Ended /\ StatusDirty /\ AllSucceeded) =>
                /\ Executed(CmdAdd) /\ Executed(CmdCommitF) /\ Executed(CmdPushTo)
                /\ outcome = "success" /\ exitcode = 0

C11_Witness ==
    /\ prog = "github_backup" /\ changelog = ChangelogNearMiss
    /\ Ended /\ outcome = "success" /\ AllSucceeded
    /\ Executed(CmdPushTo)
    /\ message[Len(message)] = "Modifications non detaillees"

-----------------------------------------------------------------------------
(* Properties of run_command *)

\* The commands the two scripts run through run_command
ViaRunCommand ==
    {CmdUpdateVersion, CmdStatus, CmdAdd, CmdCommitF, CmdPushTo,
     CmdRevParse, CmdCommitM, CmdPush}

\* The run ended on the failure of a command that run_command executed
EndedOnFailedCommand ==
    /\ IsOrchestrator /\ Ended /\ cmds # <<>>
    /\ cmds[Len(cmds)].rc # 0
    /\ cmds[Len(cmds)].cmd \in ViaRunCommand
    /\ prog = "backup_script" => cmds[Len(cmds)].cmd # CmdStatus

\* C12: whenever run_command ends the run because an external command
\* failed, the status query of check_for_changes included, a diagnostic that
\* names the failing command has been printed before the run ended.
C12_FailureIsReported ==
    EndedOnFailedCommand =>
        \E k \in 1..Len(log) :
            /\ log[k].cmd = cmds[Len(cmds)].cmd
            /\ log[k].tag \notin {"Execution", "Succes"}

\* What a report of a missing program is tagged with
NotFoundTag == "Erreur: La commande n'a pas ete trouvee"

\* What the reports of a command that ended with a non-zero status are
\* tagged with
NonZeroExitTags ==
    {"Erreur lors de l'execution de la commande",
     "ERREUR: Echec de la mise a jour de la version",
     "ERREUR: Echec de l'ajout des fichiers",
     "ERREUR: Echec de la creation du commit",
     "ERREUR: Echec du push"}

\* C13: in both run_command implementations a missing executable (the shell
\* ends with status 127) is a
\* condition of its own: it is reported as such with the name of the program,
\* and it is not reported as a non-zero exit.
C13_NotFoundIsDistinct ==
    (EndedOnFailedCommand /\ cmds[Len(cmds)].rc = 127) =>
        /\ \E k \in 1..Len(log) :
              log[k].tag = NotFoundTag /\ log[k].cmd = cmds[Len(cmds)].cmd
        /\ \A k \in 1..Len(log) :
              log[k].cmd = cmds[Len(cmds)].cmd => log[k].tag \notin NonZeroExitTags

-----------------------------------------------------------------------------
(* Rendering a version and reading it back *)

\* C14: for all (a,b,c,d) of non-negative integers, rendering the tuple as
\* "va.b.c.d" as update_config_version does and extracting the version from
\* the document made of that token gives (a,b,c,d) again.
C14_RenderThenExtract ==
    [][(pc = "uv_extract" /\ pc' # "uv_extract") =>
          /\ changelog = verstr
          /\ version' = version
          /\ pc' = "uv_update"]_vars

C14_Witness ==
    /\ pc = "uv_update"
    /\ changelog = <<"v", "1", "0", ".", "0", ".", "1", "0", "5", ".", "2", "0", "2", "4">>
    /\ version = [major |-> 10, minor |-> 0, patch |-> 105, build |-> 2024]

-----------------------------------------------------------------------------
(* Nothing to do, or something failed *)

StatusFailed == \E k \in 1..Len(cmds) : cmds[k].cmd = CmdStatus /\ cmds[k].rc # 0

\* C15: for both orchestrators the no-op outcome is reached only when the
\* status query succeeded and listed nothing; a status query that fails leads
\* to the failure outcome, never to the no-op outcome.
C15_NoopOnlyOnCleanStatus ==
    (IsOrchestrator /\ Ended) =>
        /\ outcome = "noop" => StatusClean
        /\ StatusFailed => outcome = "failed"

-----------------------------------------------------------------------------
(* config.h is missing *)

\* C17: when config.h does not exist, update_config_version fails without
\* creating it, update_version.main ends with exit status 1, and the
\* github_backup run stops before status, stage, commit and push.
C17_MissingConfigStopsEverything ==
    ~Exists(input) =>
        /\ ~Exists(config)
        /\ (prog = "update_version" /\ Ended) => exitcode = 1 /\ outcome = "failed"
        /\ prog = "github_backup" =>
              /\ \A k \in 1..Len(cmds) : cmds[k].cmd = CmdUpdateVersion /\ cmds[k].rc # 0
              /\ cmds # <<>> => Ended /\ exitcode = 1 /\ outcome = "failed"

C17_Witness ==
    /\ prog = "github_backup" /\ ~Exists(input) /\ changelog = ChangelogFull
    /\ Len(cmds) = 1 /\ cmds[1].cmd = CmdUpdateVersion /\ cmds[1].rc = 1
    /\ Ended /\ ~Exists(config)

-----------------------------------------------------------------------------
(* A recognized definition is missing from config.h *)

\* The line names macro m
Names(line, m) == \E j \in 1..Len(line) : line[j] = MacroNames[m]

\* Macro m has no definition of the recognized shape in the lines
Unmatched(lines, m) == \A i \in 1..Len(lines) : ~Occurs(lines[i], PatternOf(m))

Patched == prog = "update_version" /\ Ended /\ version # None /\ Exists(input)

\* What update_config_version does for the macros without a recognized
\* definition in the lines given for its input: nothing is inserted, the
\* lines that name them are as they were, the macros that are defined are
\* updated, and the run reports success
LeavesUnmatched(lines) ==
    /\ exitcode = 0 /\ outcome = "success"
    /\ Len(OutLines) = Len(lines)
    /\ \A m \in Macros :
          IF Unmatched(lines, m)
          THEN /\ Unmatched(OutLines, m)
               /\ \A i \in 1..Len(lines) :
                     (Names(lines[i], m) /\ \A n \in Macros : ~Occurs(lines[i], PatternOf(n)))
                         => OutLines[i] = lines[i]
          ELSE \A i \in 1..Len(lines) :
                   Occurs(lines[i], PatternOf(m)) =>
                       Holds(OutLines[i], ExpectedDef(m), PatternOf(m).cls)

\* C18: when a recognized definition is absent from config.h, or its line
\* has not the expected shape, update_config_version does not insert it: the
\* output holds no definition of that macro, that line is left unchanged,
\* the other recognized macros are updated, and the operation reports
\* success.
C18_UnmatchedMacroLeftAlone ==
    (Patched /\ \E m \in Macros : Unmatched(InRows, m)) => LeavesUnmatched(InRows)

\* What does hold: the same, the line ends of the input set aside
UnmatchedMacroUpToLineEnds ==
    (Patched /\ \E m \in Macros : Unmatched(InLines, m)) => LeavesUnmatched(InLines)

-----------------------------------------------------------------------------
(* Runs one after the other *)

\* C19: over any sequence of github_backup runs that starts without
\* .git_commit_msg.tmp in the working tree, the file is never among the paths
\* staged by `git add .` and so never part of a commit: it is created only
\* after staging and it does not survive into a later run, a run whose commit
\* failed included.
C19_MessageFileNeverStaged ==
    prog = "github_backup" =>
        /\ TmpPath \notin staged
        /\ headtmp = NoFile
        /\ pc = StartOf(prog) => ~Exists(tmpfile)

\* What does hold: within the first run the file is not staged
FirstRunDoesNotStageMessageFile ==
    (prog = "github_backup" /\ history = <<>>) => TmpPath \notin staged

\* The run before this one ended in success, and both ran on one date
AfterSuccessSameDate ==
    /\ history # <<>>
    /\ history[Len(history)].outcome = "success"
    /\ history[Len(history)].from = clock

\* What a run does that follows a successful run on the same date, nothing
\* having been modified in between: no commit and no push, and with its
\* commands succeeding it finds a clean tree and ends in the no-op outcome;
\* update_version.py leaves config.h as the first run left it
Idempotent ==
    IF IsOrchestrator
    THEN /\ NoCommitNoPush
         /\ (Ended /\ AllSucceeded) => StatusClean /\ outcome = "noop" /\ exitcode = 0
    ELSE Ended => config = input /\ exitcode = 0

\* C16: the workflow is idempotent across runs: after a run of either
\* orchestrator that ended in success, an immediately following run on the
\* same date finds a clean tree, ends in the no-op outcome, creates no commit
\* and performs no push; and update_config_version applied twice with the
\* same version and date gives what it gives applied once.
C16_SecondRunIsNoop ==
    AfterSuccessSameDate => Idempotent

\* What does hold: the same for the run that follows a successful first run
SecondRunAfterFirstIsNoop ==
    (AfterSuccessSameDate /\ Len(history) = 1) => Idempotent

=============================================================================
